---- MODULE Spec2Model ----
(***************************************************************************)
(* BigQuery -> GCS -> Clickhouse replication asset                         *)
(* (warehouse/oso_dagster/factories/bq2clickhouse.py).                     *)
(*                                                                         *)
(* Strings are sequences of tokens: a token is one character of a          *)
(* caller-supplied string, or one literal of a format string.              *)
(* The Clickhouse store is `tables` (name -> table), the GCS bucket is     *)
(* `gcs` (object prefix -> exported objects).  Every call to an external   *)
(* system either succeeds or raises; a raise ends the run (the asset       *)
(* function has no try/except).                                            *)
(***************************************************************************)
EXTENDS Integers, Sequences, FiniteSets, TLC

\* ---------------------------------------------------------------- bounds
MaxSyncLen == 2
MaxCols == 2
MaxRuns == 2

\* ------------------------------------------------------ program constants
IdentLimit == 63

GCS_BUCKET_DIRECTORY == "bq2clickhouse"

None == "None"

COLUMN_MAP ==
    [ STRING |-> "String", FLOAT |-> "Float32", FLOAT64 |-> "Float64",
      INTEGER |-> "Int64", INT64 |-> "Int64", TIMESTAMP |-> "DateTime",
      DATETIME |-> "DateTime", DATE |-> "Date", BYTES |-> "String",
      BOOL |-> "Boolean", BOOLEAN |-> "Boolean", NUMERIC |-> "Decimal",
      DECIMAL |-> "Decimal", BIGNUMERIC |-> "Decimal256",
      BIGDECIMAL |-> "Decimal256", TIME |-> "DateTime", JSON |-> "JSON" ]

\* COLUMN_MAP.get(field_type)
ColumnMapGet(field_type) ==
    IF field_type \in DOMAIN COLUMN_MAP THEN COLUMN_MAP[field_type] ELSE None

\* ------------------------------------------------------------ input sets
JobIds == {1, 2}

SyncChars == {"a", "-", "_"}

RECURSIVE StringsUpTo(_)
StringsUpTo(n) ==
    IF n = 0 THEN {<<>>}
    ELSE LET shorter == StringsUpTo(n - 1)
         IN  shorter \cup {Append(s, c) : s \in shorter, c \in SyncChars}

SyncIds == StringsUpTo(MaxSyncLen)

Rep(c, n) == [i \in 1..n |-> c]

\* destination names: a short one, and ones at the identifier limit
DestNames ==
    { Rep("a", 1), Rep("a", IdentLimit - 3), Rep("a", IdentLimit - 2),
      Rep("a", IdentLimit - 2) \o <<"_">>, Rep("a", IdentLimit) }

\* field types a source column can have in a run
SchemaTypes == {"INT64", "STRING", "RECORD", "STRUCT", "GEOGRAPHY"}

ColumnName(i) == IF i = 1 THEN "id" ELSE IF i = 2 THEN "name" ELSE "col"

Schemas ==
    UNION { { [i \in 1..n |-> [name |-> ColumnName(i), field_type |-> t[i]]]
              : t \in [1..n -> SchemaTypes] } : n \in 1..MaxCols }

\* ----------------------------------------------------------------- state
VARIABLES
    active,      \* the jobs that run
    cfg,         \* asset_config and the source table of each job
    pc,          \* position of each job in bq2clickhouse_asset
    run,         \* number of the current materialization of each job
    gcs_glob,    \* local: result of export_to_gcs
    columns,     \* local: result of get_bq_table_columns
    temp_dest,   \* local: name of the temporary table
    source_url,  \* local: gcs_to_http_url(gcs_glob)
    error,       \* the exception that ended the run, if any
    result,      \* the MaterializeResult returned, if any
    calls,       \* the external calls of the current run, in order
    tablesAtStart, \* Clickhouse as it was when the run started
    history,     \* how the earlier runs of each job ended
    tables,      \* Clickhouse: table name -> table
    gcs          \* GCS bucket: object prefix -> exported objects

vars == <<active, cfg, pc, run, gcs_glob, columns, temp_dest, source_url,
          error, result, calls, tablesAtStart, history, tables, gcs>>

locals == <<gcs_glob, columns, temp_dest, source_url>>

\* ------------------------------------------------------- table contents
Absent == [kind |-> "absent", snap |-> 0]
Empty == [kind |-> "empty", snap |-> 0]
Full(s) == [kind |-> "full", snap |-> s]
Partial(s) == [kind |-> "partial", snap |-> s]

OldColumns == <<[name |-> "id", type |-> "Int64"]>>
OldTable == [columns |-> OldColumns, data |-> Full(0)]

\* what a consumer reading `name` sees
View(tbls, name) == IF name \in DOMAIN tbls THEN tbls[name].data ELSE Absent

\* the snapshot of the source table that run r exports
Snapshot(r) == r

\* the rows job j exports in run r: each job and run has its own
JobSnapshot(j, r) == (j - 1) * (MaxRuns + 1) + Snapshot(r)

NoError == [type |-> "", stage |-> "", field |-> "", field_type |-> ""]

\* ------------------------------------------------------ string helpers
ReplaceDrop(s, old, new) == SelectSeq(s, LAMBDA c : c # old)

\* str.replace(old, new) for one-character old and new
Replace(s, old, new) == [i \in 1..Len(s) |-> IF s[i] = old THEN new ELSE s[i]]

\* str.rstrip(c)
RECURSIVE RStrip(_, _)
RStrip(s, c) ==
    IF Len(s) > 0 /\ s[Len(s)] = c THEN RStrip(SubSeq(s, 1, Len(s) - 1), c)
    ELSE s

\* "%s_%s" % (destination_table_name, sync_id.replace("-", "_"))
UntruncatedName(destination_table_name, sync_id) ==
    destination_table_name \o <<"_">> \o Replace(sync_id, "-", "_")

StagingNameNoStrip(destination_table_name, sync_id) ==
    LET t == UntruncatedName(destination_table_name, sync_id)
    IN  IF Len(t) > IdentLimit THEN SubSeq(t, 1, IdentLimit) ELSE t

\* the name of the temporary table
StagingName(destination_table_name, sync_id) ==
    LET t == UntruncatedName(destination_table_name, sync_id)
    IN  IF Len(t) > IdentLimit
        THEN RStrip(SubSeq(t, 1, IdentLimit), "_")
        ELSE t

\* "%s/%s/%s" % (GCS_BUCKET_DIRECTORY, sync_id, destination_table_name)
GcsRelativeDir(c) ==
    <<GCS_BUCKET_DIRECTORY, "/">> \o c.sync_id \o <<"/">>
        \o c.destination_table_name

\* "gs://%s/%s" % (gcs_bucket, gcs_relative_dir)
GcsPath(gcs_bucket, gcs_relative_dir) ==
    <<"gs://">> \o gcs_bucket \o <<"/">> \o gcs_relative_dir

\* the glob export_to_gcs returns for the path it exported to
GlobOf(gcs_path) == gcs_path \o <<"/", "*">>

\* gcs_to_http_url: the scheme is replaced, the rest is kept
GcsToHttpUrl(glob) == <<"https://storage.googleapis.com/">> \o Tail(glob)

\* the object prefix a load URL reads from
PrefixOfUrl(url) == <<"gs://">> \o SubSeq(url, 2, Len(url) - 2)

\* ------------------------------------------------- schema translation
UnsupportedTableColumn(f) ==
    [type |-> "UnsupportedTableColumn", stage |-> "get_bq_table_columns",
     field |-> f.name, field_type |-> f.field_type]

RECURSIVE ColumnsLoopSkip(_, _, _)
ColumnsLoopSkip(schema, i, cols) ==
    IF i > Len(schema) THEN [ok |-> TRUE, columns |-> cols, error |-> NoError]
    ELSE LET f == schema[i]
             column_type == ColumnMapGet(f.field_type)
         IN  IF f.field_type \in {"RECORD", "STRUCT"} \/ column_type = None
             THEN ColumnsLoopSkip(schema, i + 1, cols)
             ELSE ColumnsLoopSkip(schema, i + 1,
                      Append(cols, [name |-> f.name, type |-> column_type]))

\* the loop of get_bq_table_columns over table.schema, from field i on
RECURSIVE ColumnsLoop(_, _, _)
ColumnsLoop(schema, i, cols) ==
    IF i > Len(schema) THEN [ok |-> TRUE, columns |-> cols, error |-> NoError]
    ELSE LET f == schema[i]
             column_type == ColumnMapGet(f.field_type)
         IN  IF f.field_type \in {"RECORD", "STRUCT"}
             THEN [ok |-> FALSE, columns |-> <<>>,
                   error |-> UnsupportedTableColumn(f)]
             ELSE IF column_type = None
             THEN [ok |-> FALSE, columns |-> <<>>,
                   error |-> UnsupportedTableColumn(f)]
             ELSE ColumnsLoop(schema, i + 1,
                      Append(cols, [name |-> f.name, type |-> column_type]))

get_bq_table_columns_reversed(schema) ==
    LET r == ColumnsLoop(schema, 1, <<>>)
    IN  [r EXCEPT !.columns = [i \in 1..Len(@) |-> @[Len(@) + 1 - i]]]

get_bq_table_columns(schema) == ColumnsLoop(schema, 1, <<>>)

\* --------------------------------------------------- external systems
Put(f, k, v) == [x \in DOMAIN f \cup {k} |-> IF x = k THEN v ELSE f[x]]

Remove(f, k) == [x \in DOMAIN f \ {k} |-> f[x]]

ExternalError(stage) ==
    [type |-> "ExternalError", stage |-> stage, field |-> "", field_type |-> ""]

Call(op, target, to, ok, fault) ==
    [op |-> op, target |-> target, to |-> to, ok |-> ok, fault |-> fault]

ClickhouseOps == {"create_table", "import_data", "drop_table", "rename_table"}

Log(j, op, target, to, ok, fault) ==
    calls' = [calls EXCEPT ![j] = Append(@, Call(op, target, to, ok, fault))]

Raise(j, err) ==
    /\ pc' = [pc EXCEPT ![j] = "failed"]
    /\ error' = [error EXCEPT ![j] = err]

Goto(j, label) ==
    /\ pc' = [pc EXCEPT ![j] = label]
    /\ UNCHANGED error

\* create_table: can the statement succeed on these tables
CanCreate(tbls, name, if_not_exists) == if_not_exists \/ name \notin DOMAIN tbls

\* create_table: the tables after the statement succeeded
CreateTable(tbls, name, cols, if_not_exists) ==
    IF name \in DOMAIN tbls THEN tbls
    ELSE Put(tbls, name, [columns |-> cols, data |-> Empty])

CanImport(tbls, store, name, url) ==
    name \in DOMAIN tbls /\ PrefixOfUrl(url) \in DOMAIN store

\* the rows of a table after objects were appended to it
Loaded(data, objects) == IF data.kind = "empty" THEN objects ELSE Partial(objects.snap)

\* import_data: the tables after the load succeeded
ImportInto(tbls, store, name, url) ==
    Put(tbls, name, [tbls[name] EXCEPT !.data = Loaded(@, store[PrefixOfUrl(url)])])

\* import_data: the tables after the load stopped part-way
ImportPartInto(tbls, store, name, url) ==
    Put(tbls, name, [tbls[name] EXCEPT !.data = Partial(store[PrefixOfUrl(url)].snap)])

CanDrop(tbls, name) == name \in DOMAIN tbls

CanRename(tbls, old, new) == old \in DOMAIN tbls /\ new \notin DOMAIN tbls

RenameTo(tbls, old, new) == Put(Remove(tbls, old), new, tbls[old])

\* ----------------------------------------------- bq2clickhouse_asset
Dest(j) == cfg[j].destination_table_name

JobGcsPath(j) == GcsPath(cfg[j].staging_bucket, GcsRelativeDir(cfg[j]))

\* export_to_gcs(bq_client, bq_source, gcs_path)
ExportToGcs(j) ==
    /\ pc[j] = "export"
    /\ \E outcome \in {"ok", "raise", "raise_partial"} :
         /\ Log(j, "export_to_gcs", JobGcsPath(j), <<>>, outcome = "ok", outcome # "ok")
         /\ IF outcome = "ok"
            THEN /\ gcs' = Put(gcs, JobGcsPath(j), Full(JobSnapshot(j, run[j])))
                 /\ gcs_glob' = [gcs_glob EXCEPT ![j] = GlobOf(JobGcsPath(j))]
                 /\ Goto(j, "columns")
            ELSE /\ gcs' = IF outcome = "raise_partial"
                           THEN Put(gcs, JobGcsPath(j), Partial(JobSnapshot(j, run[j])))
                           ELSE gcs
                 /\ Raise(j, ExternalError("export_to_gcs"))
                 /\ UNCHANGED gcs_glob
    /\ UNCHANGED <<active, cfg, history, run, columns, temp_dest, source_url, result,
                   tablesAtStart, tables>>

GetColumnsCleanup(j) ==
    /\ pc[j] = "columns"
    /\ \E fetched \in BOOLEAN :
         LET r == get_bq_table_columns(cfg[j].schema)
             get == Call("get_table", <<>>, <<>>, fetched, ~fetched)
             del == Call("batch_delete_folder", JobGcsPath(j), <<>>, TRUE, FALSE)
         IN  IF fetched /\ r.ok
             THEN /\ calls' = [calls EXCEPT ![j] = Append(@, get)]
                  /\ columns' = [columns EXCEPT ![j] = r.columns]
                  /\ Goto(j, "names")
                  /\ UNCHANGED gcs
             ELSE /\ calls' = [calls EXCEPT ![j] = @ \o <<get, del>>]
                  /\ gcs' = Remove(gcs, JobGcsPath(j))
                  /\ Raise(j, IF fetched THEN r.error ELSE ExternalError("get_table"))
                  /\ UNCHANGED columns
    /\ UNCHANGED <<active, cfg, history, run, gcs_glob, temp_dest, source_url, result,
                   tablesAtStart, tables>>

\* columns = get_bq_table_columns(bq_client, bq_source)
GetColumns(j) ==
    /\ pc[j] = "columns"
    /\ \E fetched \in BOOLEAN :
         /\ Log(j, "get_table", <<>>, <<>>, fetched, ~fetched)
         /\ IF ~fetched
            THEN Raise(j, ExternalError("get_table")) /\ UNCHANGED columns
            ELSE LET r == get_bq_table_columns(cfg[j].schema)
                 IN  IF r.ok
                     THEN /\ columns' = [columns EXCEPT ![j] = r.columns]
                          /\ Goto(j, "names")
                     ELSE Raise(j, r.error) /\ UNCHANGED columns
    /\ UNCHANGED <<active, cfg, history, run, gcs_glob, temp_dest, source_url, result,
                   tablesAtStart, tables, gcs>>

\* source_url and temp_dest
DeriveNames(j) ==
    /\ pc[j] = "names"
    /\ source_url' = [source_url EXCEPT ![j] = GcsToHttpUrl(gcs_glob[j])]
    /\ temp_dest' = [temp_dest EXCEPT ![j] = StagingName(Dest(j), cfg[j].sync_id)]
    /\ Goto(j, "ensure")
    /\ UNCHANGED <<active, cfg, history, run, gcs_glob, columns, result, calls,
                   tablesAtStart, tables, gcs>>

EnsureDestinationSkip(j) ==
    /\ pc[j] = "ensure"
    /\ \E fault \in BOOLEAN :
         /\ Log(j, "create_table", Dest(j), <<>>, ~fault, fault)
         /\ IF ~fault
            THEN Goto(j, "create_temp")
            ELSE Raise(j, ExternalError("create_table_dest"))
    /\ UNCHANGED <<active, cfg, history, run, locals, result, tablesAtStart,
                   tables, gcs>>

\* create_table(ch_client, destination_table_name, columns, index, if_not_exists=True)
EnsureDestination(j) ==
    /\ pc[j] = "ensure"
    /\ \E fault \in BOOLEAN :
         LET ok == ~fault /\ CanCreate(tables, Dest(j), TRUE)
         IN  /\ Log(j, "create_table", Dest(j), <<>>, ok, fault)
             /\ IF ok
                THEN /\ tables' = CreateTable(tables, Dest(j), columns[j], TRUE)
                     /\ Goto(j, "create_temp")
                ELSE /\ Raise(j, ExternalError("create_table_dest"))
                     /\ UNCHANGED tables
    /\ UNCHANGED <<active, cfg, history, run, locals, result, tablesAtStart, gcs>>

CreateTempIfNotExists(j) ==
    /\ pc[j] = "create_temp"
    /\ \E fault \in BOOLEAN :
         LET ok == ~fault /\ CanCreate(tables, temp_dest[j], TRUE)
         IN  /\ Log(j, "create_table", temp_dest[j], <<>>, ok, fault)
             /\ IF ok
                THEN /\ tables' = CreateTable(tables, temp_dest[j], columns[j], TRUE)
                     /\ Goto(j, "import")
                ELSE /\ Raise(j, ExternalError("create_table_temp"))
                     /\ UNCHANGED tables
    /\ UNCHANGED <<active, cfg, history, run, locals, result, tablesAtStart, gcs>>

\* create_table(ch_client, temp_dest, columns, index, if_not_exists=False)
CreateTemp(j) ==
    /\ pc[j] = "create_temp"
    /\ \E fault \in BOOLEAN :
         LET ok == ~fault /\ CanCreate(tables, temp_dest[j], FALSE)
         IN  /\ Log(j, "create_table", temp_dest[j], <<>>, ok, fault)
             /\ IF ok
                THEN /\ tables' = CreateTable(tables, temp_dest[j], columns[j], FALSE)
                     /\ Goto(j, "import")
                ELSE /\ Raise(j, ExternalError("create_table_temp"))
                     /\ UNCHANGED tables
    /\ UNCHANGED <<active, cfg, history, run, locals, result, tablesAtStart, gcs>>

\* import_data(ch_client, table, source_url), as the asset continues after it
ImportDataInto(j, table) ==
    /\ pc[j] = "import"
    /\ \E outcome \in {"ok", "raise", "raise_partial"} :
         LET can == CanImport(tables, gcs, table, source_url[j])
             ok == outcome = "ok" /\ can
         IN  /\ Log(j, "import_data", table, <<>>, ok, outcome # "ok")
             /\ IF ok
                THEN /\ tables' = ImportInto(tables, gcs, table, source_url[j])
                     /\ Goto(j, "drop")
                ELSE /\ tables' = IF outcome = "raise_partial" /\ can
                                  THEN ImportPartInto(tables, gcs, table, source_url[j])
                                  ELSE tables
                     /\ Raise(j, ExternalError("import_data"))
    /\ UNCHANGED <<active, cfg, history, run, locals, result, tablesAtStart, gcs>>

ImportDataIntoLive(j) == ImportDataInto(j, Dest(j))

\* import_data(ch_client, temp_dest, source_url)
ImportData(j) == ImportDataInto(j, temp_dest[j])

DropTableTemp(j) ==
    /\ pc[j] = "drop"
    /\ \E fault \in BOOLEAN :
         LET ok == ~fault /\ CanDrop(tables, temp_dest[j])
         IN  /\ Log(j, "drop_table", Dest(j), <<>>, ok, fault)
             /\ IF ok
                THEN tables' = Remove(tables, temp_dest[j]) /\ Goto(j, "rename")
                ELSE Raise(j, ExternalError("drop_table")) /\ UNCHANGED tables
    /\ UNCHANGED <<active, cfg, history, run, locals, result, tablesAtStart, gcs>>

\* drop_table(ch_client, destination_table_name)
DropTable(j) ==
    /\ pc[j] = "drop"
    /\ \E fault \in BOOLEAN :
         LET ok == ~fault /\ CanDrop(tables, Dest(j))
         IN  /\ Log(j, "drop_table", Dest(j), <<>>, ok, fault)
             /\ IF ok
                THEN tables' = Remove(tables, Dest(j)) /\ Goto(j, "rename")
                ELSE Raise(j, ExternalError("drop_table")) /\ UNCHANGED tables
    /\ UNCHANGED <<active, cfg, history, run, locals, result, tablesAtStart, gcs>>

\* rename_table(ch_client, temp_dest, destination_table_name)
RenameTable(j) ==
    /\ pc[j] = "rename"
    /\ \E fault \in BOOLEAN :
         LET ok == ~fault /\ CanRename(tables, temp_dest[j], Dest(j))
         IN  /\ Log(j, "rename_table", temp_dest[j], Dest(j), ok, fault)
             /\ IF ok
                THEN /\ tables' = RenameTo(tables, temp_dest[j], Dest(j))
                     /\ Goto(j, "delete")
                ELSE Raise(j, ExternalError("rename_table")) /\ UNCHANGED tables
    /\ UNCHANGED <<active, cfg, history, run, locals, result, tablesAtStart, gcs>>

MaterializeResultLive(j) ==
    [success |-> TRUE, gcs_glob |-> gcs_glob[j],
     clickhouse_temp_table |-> Dest(j)]

MaterializeResult(j) ==
    [success |-> TRUE, gcs_glob |-> gcs_glob[j],
     clickhouse_temp_table |-> temp_dest[j]]

BatchDeleteFolderSwallow(j) ==
    /\ pc[j] = "delete"
    /\ \E ok \in BOOLEAN :
         LET prefix == GcsPath(cfg[j].staging_bucket, GcsRelativeDir(cfg[j]))
         IN  /\ Log(j, "batch_delete_folder", prefix, <<>>, ok, ~ok)
             /\ gcs' = IF ok THEN Remove(gcs, prefix) ELSE gcs
             /\ result' = [result EXCEPT ![j] = <<MaterializeResult(j)>>]
             /\ Goto(j, "done")
    /\ UNCHANGED <<active, cfg, history, run, locals, tablesAtStart, tables>>

\* batch_delete_folder(gcs_client, gcs_bucket, gcs_relative_dir); return
BatchDeleteFolder(j) ==
    /\ pc[j] = "delete"
    /\ \E ok \in BOOLEAN :
         LET prefix == GcsPath(cfg[j].staging_bucket, GcsRelativeDir(cfg[j]))
         IN  /\ Log(j, "batch_delete_folder", prefix, <<>>, ok, ~ok)
             /\ IF ok
                THEN /\ gcs' = Remove(gcs, prefix)
                     /\ result' = [result EXCEPT ![j] = <<MaterializeResult(j)>>]
                     /\ Goto(j, "done")
                ELSE /\ Raise(j, ExternalError("batch_delete_folder"))
                     /\ UNCHANGED <<gcs, result>>
    /\ UNCHANGED <<active, cfg, history, run, locals, tablesAtStart, tables>>

\* how the current run ended: the stage that raised, or "" on success
Outcome(j) == error[j].stage

\* the asset is materialized again with the same configuration
Rerun(j) ==
    /\ pc[j] \in {"done", "failed"}
    /\ run[j] < MaxRuns
    /\ run' = [run EXCEPT ![j] = @ + 1]
    /\ pc' = [pc EXCEPT ![j] = "export"]
    /\ gcs_glob' = [gcs_glob EXCEPT ![j] = <<>>]
    /\ columns' = [columns EXCEPT ![j] = <<>>]
    /\ temp_dest' = [temp_dest EXCEPT ![j] = <<>>]
    /\ source_url' = [source_url EXCEPT ![j] = <<>>]
    /\ error' = [error EXCEPT ![j] = NoError]
    /\ result' = [result EXCEPT ![j] = <<>>]
    /\ calls' = [calls EXCEPT ![j] = <<>>]
    /\ tablesAtStart' = [tablesAtStart EXCEPT ![j] = tables]
    /\ history' = [history EXCEPT ![j] = Append(@, Outcome(j))]
    /\ UNCHANGED <<active, cfg, tables, gcs>>

\* standalone recovery: rename_table(temp_dest, destination_table_name)
\* issued by an operator after a run failed at the rename
RecoverRename(j) ==
    /\ pc[j] = "failed"
    /\ error[j].stage = "rename_table"
    /\ CanRename(tables, temp_dest[j], Dest(j))
    /\ tables' = RenameTo(tables, temp_dest[j], Dest(j))
    /\ pc' = [pc EXCEPT ![j] = "recovered"]
    /\ UNCHANGED <<active, cfg, history, run, locals, error, result, calls,
                   tablesAtStart, gcs>>

\* ------------------------------------------------------- specification
StagingBucket == <<"bucket">>

Configs ==
    [sync_id : SyncIds, destination_table_name : DestNames,
     staging_bucket : {StagingBucket}, schema : Schemas]

IdleConfig ==
    [sync_id |-> <<>>, destination_table_name |-> <<>>,
     staging_bucket |-> StagingBucket, schema |-> <<>>]

Init ==
    /\ active = {1}
    /\ \E c \in Configs : cfg = [j \in JobIds |-> IF j = 1 THEN c ELSE IdleConfig]
    /\ pc = [j \in JobIds |-> IF j = 1 THEN "export" ELSE "idle"]
    /\ run = [j \in JobIds |-> 1]
    /\ gcs_glob = [j \in JobIds |-> <<>>]
    /\ columns = [j \in JobIds |-> <<>>]
    /\ temp_dest = [j \in JobIds |-> <<>>]
    /\ source_url = [j \in JobIds |-> <<>>]
    /\ error = [j \in JobIds |-> NoError]
    /\ result = [j \in JobIds |-> <<>>]
    /\ calls = [j \in JobIds |-> <<>>]
    /\ \E present \in BOOLEAN :
         tables = IF present THEN Put(<<>>, cfg[1].destination_table_name, OldTable)
                  ELSE <<>>
    /\ tablesAtStart = [j \in JobIds |-> tables]
    /\ history = [j \in JobIds |-> <<>>]
    /\ gcs = <<>>

Next ==
    \E j \in active :
        \/ ExportToGcs(j)
        \/ GetColumns(j)
        \/ DeriveNames(j)
        \/ EnsureDestination(j)
        \/ CreateTemp(j)
        \/ ImportData(j)
        \/ DropTable(j)
        \/ RenameTable(j)
        \/ BatchDeleteFolder(j)
        \/ Rerun(j)
        \/ RecoverRename(j)

Spec == Init /\ [][Next]_vars

TypeOK ==
    /\ active \subseteq JobIds
    /\ \A j \in active : pc[j] \in {"export", "columns", "names", "ensure",
           "create_temp", "import", "drop", "rename", "delete", "done",
           "failed", "recovered"}

\* ------------------------------------------------- history of the run
LiveAtStart(j) == View(tablesAtStart[j], Dest(j))

Live(j) == View(tables, Dest(j))

NewData(j) == Full(JobSnapshot(j, run[j]))

Invoked(j, op) == \E i \in 1..Len(calls[j]) : calls[j][i].op = op

Succeeded(j, op, target) ==
    \E i \in 1..Len(calls[j]) :
        calls[j][i].op = op /\ calls[j][i].target = target /\ calls[j][i].ok

FailedAt(j, stage) == pc[j] = "failed" /\ error[j].stage = stage

ClickhouseCalls(j) == SelectSeq(calls[j], LAMBDA c : c.op \in ClickhouseOps)

\* ------------------------------------------------------------- claims

\* C1 as stated: in every state of a run the destination name shows either
\* the complete table it held when the run started or the complete newly
\* loaded table.
C1_OldOrNewOnly ==
    \A j \in active : Live(j) \in {LiveAtStart(j), NewData(j)}

\* C1, amended: in every state of a run the destination name is never
\* partially loaded; it shows the table it held when the run started, or
\* the empty table created by ensure-destination when none existed, or
\* nothing once the drop of this run has succeeded, or the complete newly
\* loaded table once the rename has succeeded.
C1_NeverPartial ==
    \A j \in active :
        /\ Live(j).kind # "partial"
        /\ \/ Live(j) = LiveAtStart(j)
           \/ /\ Live(j) = Empty
              /\ LiveAtStart(j) = Absent
              /\ Succeeded(j, "create_table", Dest(j))
           \/ /\ Live(j) = Absent
              /\ Succeeded(j, "drop_table", Dest(j))
           \/ /\ Live(j) = NewData(j)
              /\ \/ Succeeded(j, "rename_table", temp_dest[j])
                 \/ pc[j] = "recovered"

\* a load that stopped part-way, with the prior table still live
C1_Witness ==
    \E j \in active :
        /\ FailedAt(j, "import_data")
        /\ View(tables, temp_dest[j]).kind = "partial"
        /\ Live(j) = Full(0)

\* the claim's unsupported column types
IsUnsupported(field_type) ==
    field_type \in {"RECORD", "STRUCT"} \/ field_type \notin DOMAIN COLUMN_MAP

HasUnsupported(schema) ==
    \E i \in 1..Len(schema) : IsUnsupported(schema[i].field_type)

FirstUnsupported(schema) ==
    CHOOSE i \in 1..Len(schema) :
        /\ IsUnsupported(schema[i].field_type)
        /\ \A k \in 1..(i - 1) : ~IsUnsupported(schema[k].field_type)

\* C2: a run on a schema with an unsupported column never gets a column
\* list, never returns a result and makes no call to the Clickhouse
\* client; once the schema has been fetched the run has failed with the
\* unsupported-column error naming the first such column in schema order.
C2_UnsupportedFailsBeforeClickhouse ==
    \A j \in active :
        HasUnsupported(cfg[j].schema) =>
            /\ ClickhouseCalls(j) = <<>>
            /\ columns[j] = <<>>
            /\ result[j] = <<>>
            /\ pc[j] \in {"export", "columns", "failed"}
            /\ Succeeded(j, "get_table", <<>>) =>
                 LET f == cfg[j].schema[FirstUnsupported(cfg[j].schema)]
                 IN  /\ pc[j] = "failed"
                     /\ error[j].type = "UnsupportedTableColumn"
                     /\ error[j].field = f.name
                     /\ error[j].field_type = f.field_type

\* the error names the second column: the first one is supported
C2_Witness ==
    \E j \in active :
        /\ pc[j] = "failed"
        /\ error[j].type = "UnsupportedTableColumn"
        /\ error[j].field = "name"
        /\ Len(cfg[j].schema) = 2
        /\ ~IsUnsupported(cfg[j].schema[1].field_type)

ExportSucceeded(j) == Succeeded(j, "export_to_gcs", JobGcsPath(j))

NoFault(j) == \A i \in 1..Len(calls[j]) : ~calls[j][i].fault

EndsInSeparator(name) == Len(name) > 0 /\ name[Len(name)] = "_"

\* length of destination_table_name + "_" + sync_id
RawLength(j) == Len(Dest(j)) + 1 + Len(cfg[j].sync_id)

\* C4 as stated: the derived staging table name has at most 63 characters
\* and does not end in '_', whatever the sync_id.
C4_BoundedAndNoTrailingSeparator ==
    \A j \in active :
        temp_dest[j] # <<>> =>
            Len(temp_dest[j]) <= 63 /\ ~EndsInSeparator(temp_dest[j])

\* C4, amended: the derived staging table name has at most 63 characters,
\* and it does not end in '_' when it was truncated, that is when
\* destination_table_name, '_' and sync_id together exceed 63 characters.
C4_BoundedAndStrippedWhenTruncated ==
    \A j \in active :
        temp_dest[j] # <<>> =>
            /\ Len(temp_dest[j]) <= 63
            /\ RawLength(j) > 63 => ~EndsInSeparator(temp_dest[j])

\* a name that was cut at the limit and lost a trailing separator
C4_Witness ==
    \E j \in active :
        /\ temp_dest[j] # <<>>
        /\ RawLength(j) > 63
        /\ Len(temp_dest[j]) < 63

\* a sync_id with every '-' written as '_'
Normalized(sync_id) ==
    [i \in 1..Len(sync_id) |-> IF sync_id[i] = "-" THEN "_" ELSE sync_id[i]]

\* C5 as stated: for the destination of the run, every other sync_id
\* yields a staging table name different from the one of the run.
C5_InjectiveInSyncId ==
    \A j \in active :
        temp_dest[j] # <<>> =>
            \A s \in SyncIds :
                s # cfg[j].sync_id => StagingName(Dest(j), s) # temp_dest[j]

\* C5, amended: for the destination of the run, every other sync_id that
\* still differs once '-' is written as '_' yields a different staging
\* table name, provided neither name is truncated (both are at most 63
\* characters before truncation).
C5_InjectiveWhenUntruncated ==
    \A j \in active :
        temp_dest[j] # <<>> /\ RawLength(j) <= 63 =>
            \A s \in SyncIds :
                /\ Normalized(s) # Normalized(cfg[j].sync_id)
                /\ Len(Dest(j)) + 1 + Len(s) <= 63
                => StagingName(Dest(j), s) # temp_dest[j]

\* an untruncated name at the limit, from a sync_id holding a '-'
C5_Witness ==
    \E j \in active :
        /\ temp_dest[j] # <<>>
        /\ RawLength(j) = 63
        /\ cfg[j].sync_id = <<"-">>
        /\ Len(temp_dest[j]) = 63

\* C6: when the bulk load fails the live table still exists with the
\* content it had before the load (its prior data, or empty if it was just
\* created), the staging table still exists, the exported objects are still
\* there, and neither drop, rename nor cleanup was invoked.
C6_LoadFailureLeavesLiveUntouched ==
    \A j \in active :
        FailedAt(j, "import_data") =>
            /\ Dest(j) \in DOMAIN tables
            /\ Live(j) = IF LiveAtStart(j) = Absent THEN Empty ELSE LiveAtStart(j)
            /\ temp_dest[j] \in DOMAIN tables
            /\ temp_dest[j] # Dest(j)
            /\ JobGcsPath(j) \in DOMAIN gcs
            /\ gcs[JobGcsPath(j)] = NewData(j)
            /\ ~Invoked(j, "drop_table")
            /\ ~Invoked(j, "rename_table")
            /\ ~Invoked(j, "batch_delete_folder")

\* a failed load over a live table that held prior data
C6_Witness ==
    \E j \in active :
        /\ FailedAt(j, "import_data")
        /\ LiveAtStart(j) = Full(0)
        /\ Live(j) = Full(0)

\* C7: when the drop succeeded and the rename failed, the run ended in
\* failure with no table under the destination name, the staging table
\* holds the fully loaded data, the exported objects are still there, and a
\* standalone rename of the staging table can succeed; once it did, the new
\* data is live.
C7_RenameFailureIsRecoverable ==
    \A j \in active :
        /\ FailedAt(j, "rename_table") =>
              /\ Succeeded(j, "drop_table", Dest(j))
              /\ result[j] = <<>>
              /\ Dest(j) \notin DOMAIN tables
              /\ View(tables, temp_dest[j]) = NewData(j)
              /\ JobGcsPath(j) \in DOMAIN gcs
              /\ ~Invoked(j, "batch_delete_folder")
              /\ CanRename(tables, temp_dest[j], Dest(j))
        /\ pc[j] = "recovered" =>
              /\ Live(j) = NewData(j)
              /\ temp_dest[j] \notin DOMAIN tables
              /\ JobGcsPath(j) \in DOMAIN gcs

\* the new data made live by the standalone rename
C7_Witness ==
    \E j \in active :
        /\ pc[j] = "recovered"
        /\ error[j].stage = "rename_table"
        /\ Live(j) = NewData(j)

\* C8: a run in which no external system faulted, on a supported schema and
\* with no table under the staging name when it started, ends in success:
\* the live table holds exactly the exported rows, no table exists under the
\* staging name, the staging directory is empty and the result has
\* success = true.
C8_FaultFreeRunSucceeds ==
    \A j \in active :
        /\ pc[j] \in {"done", "failed"}
        /\ NoFault(j)
        /\ ~HasUnsupported(cfg[j].schema)
        /\ StagingName(Dest(j), cfg[j].sync_id) \notin DOMAIN tablesAtStart[j]
        => /\ pc[j] = "done"
           /\ Live(j) = NewData(j)
           /\ temp_dest[j] \notin DOMAIN tables
           /\ JobGcsPath(j) \notin DOMAIN gcs
           /\ Len(result[j]) = 1
           /\ result[j][1].success

FailureStages ==
    {"get_table", "get_bq_table_columns", "export_to_gcs", "create_table_dest",
     "create_table_temp", "import_data", "drop_table", "rename_table"}

\* C9: the staging objects are deleted only in runs whose drop and rename
\* have succeeded; a run that failed at translation, export,
\* ensure-destination, create-staging, bulk-load, drop or rename never
\* invoked the deletion, and the objects it exported are still there.
C9_DeleteOnlyAfterSwap ==
    \A j \in active :
        /\ Invoked(j, "batch_delete_folder") =>
              /\ Succeeded(j, "drop_table", Dest(j))
              /\ Succeeded(j, "rename_table", temp_dest[j])
        /\ pc[j] \in {"failed", "recovered"} /\ error[j].stage \in FailureStages =>
              /\ ~Invoked(j, "batch_delete_folder")
              /\ ExportSucceeded(j) =>
                    /\ JobGcsPath(j) \in DOMAIN gcs
                    /\ gcs[JobGcsPath(j)] = NewData(j)

\* a run that failed at the drop, its exported objects kept
C9_Witness ==
    \E j \in active :
        /\ FailedAt(j, "drop_table")
        /\ JobGcsPath(j) \in DOMAIN gcs

CleanupFailed(j) ==
    \E i \in 1..Len(calls[j]) :
        calls[j][i].op = "batch_delete_folder" /\ ~calls[j][i].ok

PipelineOps ==
    <<"export_to_gcs", "get_table", "create_table", "create_table",
      "import_data", "drop_table", "rename_table", "batch_delete_folder">>

ReturnedSuccess(j) == Len(result[j]) = 1 /\ result[j][1].success

\* C11: a result with success = true comes only from a run in which every
\* stage completed: export, translation, ensure-destination, create-staging,
\* bulk-load, drop, rename and cleanup were all called and all succeeded;
\* a run with a failed call or an error never has such a result.
C11_SuccessOnlyAfterEveryStage ==
    \A j \in active :
        /\ ReturnedSuccess(j) =>
              /\ pc[j] = "done"
              /\ error[j] = NoError
              /\ Len(columns[j]) = Len(cfg[j].schema)
              /\ Len(calls[j]) = Len(PipelineOps)
              /\ \A i \in 1..Len(calls[j]) :
                    calls[j][i].op = PipelineOps[i] /\ calls[j][i].ok
        /\ (pc[j] = "failed" \/ \E i \in 1..Len(calls[j]) : ~calls[j][i].ok)
              => ~ReturnedSuccess(j)

\* a successful run over a live table that held prior data
C11_Witness ==
    \E j \in active :
        /\ ReturnedSuccess(j)
        /\ LiveAtStart(j) = Full(0)
        /\ Live(j) = NewData(j)

Terminated(j) == pc[j] \in {"done", "failed"}

StageOfCall(i) ==
    IF i = 3 THEN "create_table_dest"
    ELSE IF i = 4 THEN "create_table_temp"
    ELSE PipelineOps[i]

C15_RetryAfterLoadFailureSucceeds ==
    \A j \in active :
        /\ Len(history[j]) > 0
        /\ history[j][Len(history[j])] \in {"create_table_temp", "import_data"}
        /\ Terminated(j)
        /\ NoFault(j)
        => /\ pc[j] = "done"
           /\ Live(j) = NewData(j)

\* C16: the external calls of a run are a prefix of export, schema fetch,
\* ensure-destination, create-staging, bulk-load, drop, rename, cleanup,
\* each made once; a call that failed is the last one and the run has
\* failed, and after a failed translation nothing was called any more.
C16_HaltsAtFirstFailure ==
    \A j \in active :
        /\ Len(calls[j]) <= Len(PipelineOps)
        /\ \A i \in 1..Len(calls[j]) :
              /\ calls[j][i].op = PipelineOps[i]
              /\ ~calls[j][i].ok =>
                    /\ i = Len(calls[j])
                    /\ pc[j] \in {"failed", "recovered"}
                    /\ error[j].stage = StageOfCall(i)
        /\ error[j].stage = "get_bq_table_columns" =>
              /\ pc[j] = "failed"
              /\ Len(calls[j]) = 2

\* a run stopped by create-staging: four calls and no more
C16_Witness ==
    \E j \in active :
        /\ FailedAt(j, "create_table_temp")
        /\ Len(calls[j]) = 4
        /\ ~Invoked(j, "import_data")

\* C17: the Clickhouse calls of a run are, in this order, create_table on
\* the live name, create_table on the staging name, import_data into the
\* staging name, drop_table of the live name, rename_table of the staging
\* name to the live name; each is made only after the one before succeeded;
\* create-staging fails when a table of that name exists; the bulk load
\* never targets the live name.
C17_DestinationCallOrder ==
    \A j \in active :
        LET cc == ClickhouseCalls(j)
        IN  /\ Len(cc) <= 5
            /\ \A i \in 2..Len(cc) : cc[i - 1].ok
            /\ Len(cc) >= 1 => cc[1].op = "create_table" /\ cc[1].target = Dest(j)
            /\ Len(cc) >= 2 =>
                  /\ cc[2].op = "create_table" /\ cc[2].target = temp_dest[j]
                  /\ (temp_dest[j] \in DOMAIN tablesAtStart[j] \/ temp_dest[j] = Dest(j))
                        => ~cc[2].ok
            /\ Len(cc) >= 3 =>
                  /\ cc[3].op = "import_data" /\ cc[3].target = temp_dest[j]
                  /\ cc[3].target # Dest(j)
            /\ Len(cc) >= 4 => cc[4].op = "drop_table" /\ cc[4].target = Dest(j)
            /\ Len(cc) >= 5 =>
                  /\ cc[5].op = "rename_table"
                  /\ cc[5].target = temp_dest[j] /\ cc[5].to = Dest(j)

\* create-staging refused, with no fault, a table left by an earlier run
C17_Witness ==
    \E j \in active :
        /\ FailedAt(j, "create_table_temp")
        /\ NoFault(j)
        /\ temp_dest[j] # Dest(j)
        /\ temp_dest[j] \in DOMAIN tablesAtStart[j]

\* the window of a run between its drop and its rename
InSwapWindow(j) ==
    /\ Succeeded(j, "drop_table", Dest(j))
    /\ ~Succeeded(j, "rename_table", temp_dest[j])
    /\ pc[j] # "recovered"

\* C18: once ensure-destination has completed, a table is addressable under
\* the destination name exactly in the states outside the window between
\* the successful drop and the successful rename; hence the drop never
\* fails for want of a table, and a table is addressable under the
\* destination name, and none under the staging name, at terminal success.
C18_LivePresentOutsideSwapWindow ==
    \A j \in active :
        /\ Succeeded(j, "create_table", Dest(j)) =>
              (Dest(j) \in DOMAIN tables <=> ~InSwapWindow(j))
        /\ \A i \in 1..Len(calls[j]) :
              calls[j][i].op = "drop_table" =>
                  calls[j][i].ok \/ calls[j][i].fault
        /\ pc[j] = "done" =>
              Dest(j) \in DOMAIN tables /\ temp_dest[j] \notin DOMAIN tables

\* in the window, in a run that started with no live table
C18_Witness ==
    \E j \in active :
        /\ LiveAtStart(j) = Absent
        /\ pc[j] = "rename"
        /\ Succeeded(j, "drop_table", Dest(j))
        /\ Dest(j) \notin DOMAIN tables

\* C20: the derived staging table name differs from the destination name.
C20_StagingDiffersFromLive ==
    \A j \in active :
        temp_dest[j] # <<>> => temp_dest[j] # Dest(j)

\* ------------------------------------- specification: schema translation
\* every field type of the mapping, the nested types and an unknown type
AllFieldTypes == DOMAIN COLUMN_MAP \cup {"RECORD", "STRUCT", "GEOGRAPHY"}

AllSchemas ==
    UNION { { [i \in 1..n |-> [name |-> ColumnName(i), field_type |-> t[i]]]
              : t \in [1..n -> AllFieldTypes] } : n \in 1..MaxCols }

\* the state in which the jobs `act` start their first run
Start(configs, act, tbls) ==
    /\ active = act
    /\ cfg = configs
    /\ pc = [j \in JobIds |-> IF j \in act THEN "export" ELSE "idle"]
    /\ run = [j \in JobIds |-> 1]
    /\ gcs_glob = [j \in JobIds |-> <<>>]
    /\ columns = [j \in JobIds |-> <<>>]
    /\ temp_dest = [j \in JobIds |-> <<>>]
    /\ source_url = [j \in JobIds |-> <<>>]
    /\ error = [j \in JobIds |-> NoError]
    /\ result = [j \in JobIds |-> <<>>]
    /\ calls = [j \in JobIds |-> <<>>]
    /\ tables = tbls
    /\ tablesAtStart = [j \in JobIds |-> tbls]
    /\ history = [j \in JobIds |-> <<>>]
    /\ gcs = <<>>

InitSchema ==
    \E sch \in AllSchemas :
        Start([j \in JobIds |->
                  IF j = 1
                  THEN [sync_id |-> <<"a">>, destination_table_name |-> <<"a">>,
                        staging_bucket |-> StagingBucket, schema |-> sch]
                  ELSE IdleConfig],
              {1}, <<>>)

NextSchema ==
    \E j \in active :
        \/ ExportToGcs(j)
        \/ GetColumns(j)

SpecSchema == InitSchema /\ [][NextSchema]_vars

\* the destination type the claim gives for a source type
ExpectedType(field_type) ==
    CASE field_type \in {"INTEGER", "INT64"} -> "Int64"
      [] field_type \in {"TIMESTAMP", "DATETIME", "TIME"} -> "DateTime"
      [] field_type = "BYTES" -> "String"
      [] field_type = "BIGNUMERIC" -> "Decimal256"
      [] OTHER -> COLUMN_MAP[field_type]

\* C19: when every column type of the schema is in the mapping, the
\* translation returns one (name, destination type) pair per source column,
\* in source order, with the names unchanged and each type the mapping's
\* value for the source type.
C19_TranslationFollowsMapping ==
    \A j \in active :
        (Succeeded(j, "get_table", <<>>) /\ ~HasUnsupported(cfg[j].schema)) =>
            /\ pc[j] = "names"
            /\ error[j] = NoError
            /\ Len(columns[j]) = Len(cfg[j].schema)
            /\ \A i \in 1..Len(columns[j]) :
                  /\ columns[j][i].name = cfg[j].schema[i].name
                  /\ columns[j][i].type = ExpectedType(cfg[j].schema[i].field_type)
                  /\ columns[j][i].type # None

\* (id INTEGER, name BIGNUMERIC) translated to (id Int64, name Decimal256)
C19_Witness ==
    \E j \in active :
        /\ cfg[j].schema = <<[name |-> "id", field_type |-> "INTEGER"],
                             [name |-> "name", field_type |-> "BIGNUMERIC"]>>
        /\ columns[j] = <<[name |-> "id", type |-> "Int64"],
                          [name |-> "name", type |-> "Decimal256"]>>

\* ------------------------------------- specification: two concurrent jobs
ConcDestNames == {<<"a">>, <<"a", "a">>, <<"a", "_", "a">>}

ConcSyncIds == {<<"a">>, <<"-">>}

ConcConfigs ==
    [sync_id : ConcSyncIds, destination_table_name : ConcDestNames,
     staging_bucket : {StagingBucket},
     schema : {<<[name |-> "id", field_type |-> "INT64"]>>}]

\* two assets with distinct sync_ids, materialized at the same time; every
\* destination either holds prior data or does not exist
InitConc ==
    \E c1 \in ConcConfigs, c2 \in ConcConfigs, present \in BOOLEAN :
        /\ c1.sync_id # c2.sync_id
        /\ Start([j \in JobIds |-> IF j = 1 THEN c1 ELSE c2], JobIds,
                 IF present
                 THEN [n \in {c1.destination_table_name,
                              c2.destination_table_name} |-> OldTable]
                 ELSE <<>>)

NextConc ==
    \E j \in active :
        \/ ExportToGcs(j)
        \/ GetColumns(j)
        \/ DeriveNames(j)
        \/ EnsureDestination(j)
        \/ CreateTemp(j)
        \/ ImportData(j)
        \/ DropTable(j)
        \/ RenameTable(j)
        \/ BatchDeleteFolder(j)

SpecConc == InitConc /\ [][NextConc]_vars

Other(j) == CHOOSE k \in JobIds : k # j

FaultFree == \A j \in active : NoFault(j)

AllTerminated == \A j \in active : Terminated(j)

DifferentDestinations ==
    active = JobIds /\ Dest(1) # Dest(2) /\ cfg[1].sync_id # cfg[2].sync_id

SameDestination ==
    active = JobIds /\ Dest(1) = Dest(2) /\ cfg[1].sync_id # cfg[2].sync_id

\* C13: two jobs with different destinations and different sync_ids never
\* address the same staging table, neither staging name is the live name of
\* the other job, their staging paths differ, and without faults each job
\* ends as it does alone: in success, its destination holding its own data.
C13_DistinctJobsShareNothing ==
    DifferentDestinations =>
        /\ \A j \in JobIds :
              temp_dest[j] # <<>> =>
                  /\ temp_dest[j] # Dest(Other(j))
                  /\ temp_dest[j] # temp_dest[Other(j)]
        /\ JobGcsPath(1) # JobGcsPath(2)
        /\ (FaultFree /\ AllTerminated) =>
              \A j \in JobIds : pc[j] = "done" /\ Live(j) = NewData(j)

SwapFailed(j) == FailedAt(j, "drop_table") \/ FailedAt(j, "rename_table")

\* C14: when two jobs with distinct sync_ids and distinct staging tables
\* target the same destination and no external fault happens, a job can
\* fail only in its swap, at the drop or at the rename, because of the
\* steps of the other job; when both have ended at least one has
\* succeeded and the destination holds the complete data of a job that
\* succeeded, which need not be the job that ended last.
C14_SameDestinationOutcomes ==
    (SameDestination /\ FaultFree) =>
        /\ \A j \in JobIds :
              pc[j] = "failed" =>
                  /\ SwapFailed(j)
                  /\ \/ Succeeded(Other(j), "drop_table", Dest(j))
                     \/ Succeeded(Other(j), "create_table", Dest(j))
        /\ AllTerminated =>
              \E j \in JobIds : pc[j] = "done" /\ Live(j) = NewData(j)

\* with no fault at all, a job failed in its swap
C14_Witness ==
    /\ SameDestination
    /\ FaultFree
    /\ AllTerminated
    /\ \E j \in JobIds : SwapFailed(j) /\ pc[Other(j)] = "done"
====
